---- MODULE Spec2Model ----
(***************************************************************************)
(* Model of the voiceflow-agent-copilot CLI: the two "add API tool"        *)
(* commands (the operator path addApiTool of the CLI entry file and the    *)
(* generator path aiAddApiTool / addApiToolFromJson) acting on a .vf       *)
(* project document kept in a file.                                        *)
(*                                                                         *)
(* Strings are sequences of one-character strings, so that the regular     *)
(* expression /\{+([a-zA-Z0-9_]+)\}+/g, split, trim, indexOf, join and     *)
(* replace are computed character by character as the JavaScript does.     *)
(* generateMongoId (24 random hex digits) is modelled as a counter: two    *)
(* generated ids never collide, and never equal an id found in a generator *)
(* payload.                                                                *)
(***************************************************************************)
EXTENDS Integers, Sequences, FiniteSets, TLC

VARIABLES
    versions,   \* the files of versions/ in name order; the last is the working file
    nextId,     \* number of ids generateMongoId has handed out
    ops,        \* number of commands run so far
    last        \* the last command run: its input, the document it loaded, its outcome

vars == <<versions, nextId, ops, last>>

----------------------------------------------------------------------------
(* Bounds *)

MaxOps == 2

----------------------------------------------------------------------------
(* Characters and strings *)

NameChars ==
    { "a","b","c","d","e","f","g","h","i","j","k","l","m","n","o","p","q","r",
      "s","t","u","v","w","x","y","z",
      "A","B","C","D","E","F","G","H","I","J","K","L","M","N","O","P","Q","R",
      "S","T","U","V","W","X","Y","Z",
      "0","1","2","3","4","5","6","7","8","9","_" }

WhiteSpace == { " ", "\t", "\n" }

Concat(ss) ==
    LET RECURSIVE go(_)
        go(i) == IF i > Len(ss) THEN <<>> ELSE ss[i] \o go(i + 1)
    IN  go(1)

\* First index >= i of s whose character is not in S (Len(s)+1 when none).
RunEnd(s, i, S) ==
    CHOOSE j \in i..(Len(s) + 1) :
        /\ \A k \in i..(j - 1) : s[k] \in S
        /\ (j = Len(s) + 1 \/ s[j] \notin S)

NoMatch == [ok |-> FALSE, index |-> 0, end |-> 0, name |-> <<>>]

\* The match whose brace run starting at i ends before a, whose name ends before b and
\* whose closing run ends before c, when none of the three runs is empty.
MatchRuns(s, i, a, b, c) ==
    IF a > i /\ b > a /\ c > b
    THEN [ok |-> TRUE, index |-> i, end |-> c, name |-> SubSeq(s, a, b - 1)]
    ELSE NoMatch

NameEnd(s, i) == RunEnd(s, RunEnd(s, i, {"{"}), NameChars)

\* A variant of MatchAt that takes one brace on each side only.
MatchAtSingleBrace(s, i) ==
    LET a == IF i <= Len(s) /\ s[i] = "{" THEN i + 1 ELSE i
        b == RunEnd(s, a, NameChars)
    IN  MatchRuns(s, i, a, b, IF b <= Len(s) /\ s[b] = "}" THEN b + 1 ELSE b)

\* varRegex anchored at position i: "{"+ name+ "}"+, each run greedy.
MatchAt(s, i) ==
    MatchRuns(s, i, RunEnd(s, i, {"{"}), NameEnd(s, i), RunEnd(s, NameEnd(s, i), {"}"}))

Min(S) == CHOOSE p \in S : \A q \in S : p <= q

Max(S) == CHOOSE p \in S : \A q \in S : p >= q

\* The match at the least of the positions hits.
LeftmostMatch(s, hits) == IF hits = {} THEN NoMatch ELSE MatchAt(s, Min(hits))

\* varRegex.exec(s) with lastIndex = from - 1: the leftmost match at or after from.
ExecFrom(s, from) == LeftmostMatch(s, { p \in from..Len(s) : MatchAt(s, p).ok })

\* All matches of the global regex in s, left to right (the while-exec loop).
AllMatches(s) ==
    LET RECURSIVE go(_)
        go(m) == IF m.ok THEN <<m>> \o go(ExecFrom(s, m.end)) ELSE <<>>
    IN  go(ExecFrom(s, 1))

\* The match m when it ends the string s.
WholeString(s, m) == IF m.ok /\ m.end = Len(s) + 1 THEN m ELSE NoMatch

\* The whole string is one placeholder: /^\{+([a-zA-Z0-9_]+)\}+$/.
FullMatch(s) == WholeString(s, IF Len(s) = 0 THEN NoMatch ELSE MatchAt(s, 1))

\* Append x to the sequence q unless it is there already (Set.add keeps insertion order).
SetAdd(q, x) == IF \E i \in 1..Len(q) : q[i] = x THEN q ELSE Append(q, x)

Has(q, x) == \E i \in 1..Len(q) : q[i] = x

\* The names of the matches ms, added in order to the Set found.
AddMatchNames(found, ms) ==
    LET RECURSIVE go(_, _)
        go(acc, i) == IF i > Len(ms) THEN acc ELSE go(SetAdd(acc, ms[i].name), i + 1)
    IN  go(found, 1)

\* The names captured by the global regex in s, added to the Set found.
AddNames(found, s) == AddMatchNames(found, AllMatches(s))

\* s.indexOf(ch), 1-based; 0 when ch does not occur.
IndexOf(s, ch) ==
    IF \E i \in 1..Len(s) : s[i] = ch
    THEN CHOOSE i \in 1..Len(s) : s[i] = ch /\ \A j \in 1..(i - 1) : s[j] # ch
    ELSE 0

\* s.split(ch): the pieces between the occurrences of ch (always at least one piece).
Split(s, ch) ==
    LET RECURSIVE go(_)
        go(t) ==
            LET i == IndexOf(t, ch)
            IN  IF i = 0 THEN <<t>>
                ELSE <<SubSeq(t, 1, i - 1)>> \o go(SubSeq(t, i + 1, Len(t)))
    IN  go(s)

\* pieces.join(ch)
Join(pieces, ch) ==
    LET RECURSIVE go(_)
        go(i) ==
            IF i > Len(pieces) THEN <<>>
            ELSE IF i = Len(pieces) THEN pieces[i]
            ELSE pieces[i] \o <<ch>> \o go(i + 1)
    IN  go(1)

\* The positions of s that hold no white space.
NonBlank(s) == { i \in 1..Len(s) : s[i] \notin WhiteSpace }

Trim(s) == IF NonBlank(s) = {} THEN <<>> ELSE SubSeq(s, Min(NonBlank(s)), Max(NonBlank(s)))

SelectSeqNonEmpty(ss) == SelectSeq(ss, LAMBDA t : t # <<>>)

MapSeq(q, F(_)) == [i \in 1..Len(q) |-> F(q[i])]

----------------------------------------------------------------------------
(* Identifiers *)

\* The n-th id handed out by generateMongoId.
GenId(n) == <<"gen", n>>
\* An id written by the external generator in its payload.
LlmId(n) == <<"llm", n>>
\* JavaScript undefined where an id is expected.
NoId == <<"undefined", 0>>

----------------------------------------------------------------------------
(* Segment sequences: the elements of a url[0].text, value[0].text or      *)
(* body.content array are strings or {variableID} objects.                 *)

Lit(s) == [type |-> "string", text |-> s, variableID |-> NoId]
Ref(id) == [type |-> "object", text |-> <<>>, variableID |-> id]

IsLit(p) == p.type = "string"
IsRef(p) == p.type = "object"

----------------------------------------------------------------------------
(* The .vf document.  keys holds which of the three tool collections exist *)
(* as arrays in the JSON; agents is the root agents array (ids) and        *)
(* progAgents the keys of version.programResources.agents.  Timestamps,    *)
(* createdByID, folderID and image are values the code only writes: no     *)
(* branch reads them, and they are left out of the records.                *)
(* rootInstructions[i] is the instructions array of agents[i], one text    *)
(* array per element; progInstructions[i] is the instructions string of    *)
(* progAgents[i].                                                          *)

Doc(keys, tools, variables, links, agents, progAgents) ==
    [ keys |-> keys,
      apiTools |-> tools,
      apiToolInputVariables |-> variables,
      agentAPITools |-> links,
      agents |-> agents,
      progAgents |-> progAgents,
      rootInstructions |-> [i \in 1..Len(agents) |-> << <<"i0">> >>],
      progInstructions |-> [i \in 1..Len(progAgents) |-> "i0"] ]

\* vfParser.listAllAgents: programResources agents first, then root agents, one per id.
listAllAgents(data) ==
    LET RECURSIVE go(_, _)
        go(acc, i) ==
            IF i > Len(data.agents) THEN acc
            ELSE go(SetAdd(acc, data.agents[i]), i + 1)
    IN  go(data.progAgents, 1)

\* A variant of EnsureToolArrays that sets both arrays to [] whether or not they exist.
EnsureToolArraysReset(data) ==
    [data EXCEPT !.keys = @ \cup {"apiToolInputVariables", "apiTools"},
                 !.apiTools = <<>>,
                 !.apiToolInputVariables = <<>>]

\* if (!Array.isArray(data.apiToolInputVariables)) ... ; if (!Array.isArray(data.apiTools)) ...
EnsureToolArrays(data) ==
    [data EXCEPT !.keys = @ \cup {"apiToolInputVariables", "apiTools"}]

----------------------------------------------------------------------------
(* Operator path: addApiTool *)

BodyMethods == {"post", "put", "patch"}

\* The string Array.prototype.join gives for an object element.
ObjectObject ==
    <<"[","o","b","j","e","c","t"," ","O","b","j","e","c","t","]">>

\* t.url[0].text.join('')
JoinParts(parts) ==
    Concat([i \in 1..Len(parts) |->
        IF IsLit(parts[i]) THEN parts[i].text ELSE ObjectObject])

\* url with each of the matches ms replaced by '{var}'.
ReplaceMatches(url, ms) ==
    LET RECURSIVE go(_, _)
        go(i, from) ==
            IF i > Len(ms) THEN SubSeq(url, from, Len(url))
            ELSE SubSeq(url, from, ms[i].index - 1) \o <<"{","v","a","r","}">>
                 \o go(i + 1, ms[i].end)
    IN  go(1, 1)

\* url.replace(varRegex, '{var}')
StripVars(url) == ReplaceMatches(url, AllMatches(url))

\* The duplicate test of addApiTool on one existing tool t, by name or by url; the
\* first form is the test by url alone.
IsDuplicateOfUrlOnly(t, name, url) == JoinParts(t.url) = StripVars(url)
IsDuplicateOf(t, name, url) ==
    t.name = name \/ JoinParts(t.url) = StripVars(url)

\* queryParamsInput.split(',') ... .filter((qp) => qp.key)
ParseQueryParamPairs(queryParamsInput) ==
    LET pieces == SelectSeqNonEmpty(MapSeq(Split(queryParamsInput, ","), Trim))
        pair(p) ==
            LET kv == Split(p, "=")
            IN  [ key |-> Trim(kv[1]),
                  value |-> Trim(Join(SubSeq(kv, 2, Len(kv)), "=")) ]
    IN  SelectSeq(MapSeq(pieces, pair), LAMBDA qp : qp.key # <<>>)

\* The body template is entered only for post, put and patch, and only on request.
BodyTemplateOf(in) ==
    IF in.httpMethod \in BodyMethods /\ in.wantsBody THEN in.bodyInput ELSE <<>>

\* The body pass of foundVars: skipped when the template is blank.
AddBodyNames(found, bodyTemplate) ==
    IF Trim(bodyTemplate) # <<>> THEN AddNames(found, bodyTemplate) ELSE found

\* foundVars: names in the url, then in each query value, then in the body.
FoundVars(url, queryParamPairs, bodyTemplate) ==
    LET RECURSIVE q(_, _)
        q(acc, i) ==
            IF i > Len(queryParamPairs) THEN acc
            ELSE q(AddNames(acc, queryParamPairs[i].value), i + 1)
    IN  AddBodyNames(q(AddNames(<<>>, url), 1), bodyTemplate)

\* variableIDs[name]
LookupId(variableIDs, name) ==
    IF \E i \in 1..Len(variableIDs) : variableIDs[i].name = name
    THEN (variableIDs[CHOOSE i \in 1..Len(variableIDs) : variableIDs[i].name = name]).id
    ELSE NoId

\* A variant of TokenizeMatches that drops the text after the last match.
TokenizeMatchesNoTail(s, variableIDs, ms) ==
    LET RECURSIVE go(_, _)
        go(i, lastIndex) ==
            IF i > Len(ms)
            THEN <<>>
            ELSE (IF ms[i].index > lastIndex
                  THEN <<Lit(SubSeq(s, lastIndex, ms[i].index - 1))>> ELSE <<>>)
                 \o <<Ref(LookupId(variableIDs, ms[i].name))>>
                 \o go(i + 1, ms[i].end)
    IN  go(1, 1)

\* The strings between the matches ms of s and a {variableID} object for each match.
TokenizeMatches(s, variableIDs, ms) ==
    LET RECURSIVE go(_, _)
        go(i, lastIndex) ==
            IF i > Len(ms)
            THEN IF lastIndex <= Len(s) THEN <<Lit(SubSeq(s, lastIndex, Len(s)))>> ELSE <<>>
            ELSE (IF ms[i].index > lastIndex
                  THEN <<Lit(SubSeq(s, lastIndex, ms[i].index - 1))>> ELSE <<>>)
                 \o <<Ref(LookupId(variableIDs, ms[i].name))>>
                 \o go(i + 1, ms[i].end)
    IN  go(1, 1)

\* The while-exec loop that turns a template into strings and {variableID} objects.
Tokenize(s, variableIDs) == TokenizeMatches(s, variableIDs, AllMatches(s))

\* headersInput.split(',').map(...): key:value, the value kept as one literal.
ParseHeaders(headersInput, firstId) ==
    IF Trim(headersInput) = <<>> THEN <<>>
    ELSE LET hs == Split(headersInput, ",")
         IN  [i \in 1..Len(hs) |->
                LET kv == Split(hs[i], ":")
                IN  [ id |-> GenId(firstId + i),
                      key |-> Trim(kv[1]),
                      value |-> <<Lit(Trim(Join(SubSeq(kv, 2, Len(kv)), ":")))>> ]]

NoBody == [present |-> FALSE, content |-> <<>>]

\* variableIDs: one fresh id per name of allVarNames (ids follow idBase).
VariableIDs(allVarNames, idBase) ==
    [i \in 1..Len(allVarNames) |-> [name |-> allVarNames[i], id |-> GenId(idBase + i)]]

\* The entries pushed to apiToolInputVariables, one per name.
NewVars(variableIDs, apiToolID, varDesc) ==
    [i \in 1..Len(variableIDs) |->
        [ id |-> variableIDs[i].id,
          name |-> variableIDs[i].name,
          apiToolID |-> apiToolID,
          description |-> varDesc ]]

\* queryParameters: every pair with its value tokenized (ids follow idBase).
QueryParameters(queryParamPairs, variableIDs, idBase) ==
    [i \in 1..Len(queryParamPairs) |->
        [ id |-> GenId(idBase + i),
          key |-> queryParamPairs[i].key,
          value |-> Tokenize(queryParamPairs[i].value, variableIDs) ]]

\* body: null unless the template has text.
BodyOf(bodyTemplate, variableIDs) ==
    IF Trim(bodyTemplate) # <<>>
    THEN [present |-> TRUE, content |-> Tokenize(bodyTemplate, variableIDs)]
    ELSE NoBody

\* The pushes that end the callback: the variables, the tool and the agent link.
PushTool(data, in, selectedAgentId, idBase, variableIDs, queryParameters, headers, body) ==
    LET apiToolID == GenId(idBase + 1)
        used == 2 + Len(variableIDs) + Len(queryParameters) + Len(headers)
        tool == [ id |-> apiToolID,
                  name |-> in.name,
                  description |-> in.description,
                  url |-> Tokenize(in.url, variableIDs),
                  httpMethod |-> in.httpMethod,
                  queryParameters |-> queryParameters,
                  body |-> body,
                  headers |-> headers ]
        link == [ id |-> GenId(idBase + used),
                  agentID |-> selectedAgentId,
                  apiToolID |-> apiToolID ]
    IN  [outcome |-> "ok",
         data |-> [data EXCEPT
                     !.keys = @ \cup {"agentAPITools"},
                     !.apiToolInputVariables = @ \o NewVars(variableIDs, apiToolID, in.varDesc),
                     !.apiTools = Append(@, tool),
                     !.agentAPITools = Append(@, link)],
         saved |-> TRUE,
         used |-> used]

\* The tool's parts, built once the variables have their ids: ids are generated in
\* the order tool, variables, query parameters, headers, link.
BuildTool(data, in, selectedAgentId, idBase, queryParamPairs, variableIDs) ==
    PushTool(data, in, selectedAgentId, idBase, variableIDs,
             QueryParameters(queryParamPairs, variableIDs, idBase + 1 + Len(variableIDs)),
             ParseHeaders(in.headersInput,
                          idBase + 1 + Len(variableIDs) + Len(queryParamPairs)),
             BodyOf(BodyTemplateOf(in), variableIDs))

\* The duplicate test on the loaded document, then the build.
CheckDuplicateThenBuild(data, in, selectedAgentId, idBase, queryParamPairs) ==
    IF \E i \in 1..Len(data.apiTools) : IsDuplicateOf(data.apiTools[i], in.name, in.url)
    THEN [outcome |-> "duplicate", data |-> data, saved |-> FALSE, used |-> 1]
    ELSE BuildTool(data, in, selectedAgentId, idBase, queryParamPairs,
                   VariableIDs(FoundVars(in.url, queryParamPairs, BodyTemplateOf(in)),
                               idBase + 1))

\* The callback handed to withAutoVersioning, on the document data just loaded.
\* Gives the outcome, the document in memory at the end and the ids consumed.
AddApiToolMutation(data0, in, selectedAgentId, idBase) ==
    CheckDuplicateThenBuild(EnsureToolArrays(data0), in, selectedAgentId, idBase,
                            ParseQueryParamPairs(in.queryParamsInput))

----------------------------------------------------------------------------
(* Generator payloads.  A payload is the JSON value parsed from the        *)
(* generator's answer:                                                     *)
(*   shape   "apiTool" : { apiTool: T, ... }                               *)
(*           "tool"    : { tool: T, ... }                                  *)
(*           "flat"    : the object is itself the tool T                   *)
(*   varsKey the key that holds the variable list: "apiToolInputVariables",*)
(*           "variables" or "none"                                         *)
(* A tool candidate T has every field the code reads; Undefined and the    *)
(* kind "absent" stand for a missing key.                                  *)

Undefined == "<undefined>"

AbsentUrl == [kind |-> "absent", s |-> <<>>, text |-> <<>>]
StringUrl(s) == [kind |-> "string", s |-> s, text |-> <<>>]
StructUrl(parts) == [kind |-> "struct", s |-> <<>>, text |-> parts]

AbsentValue == [kind |-> "absent", s |-> <<>>, text |-> <<>>]
StringValue(s) == [kind |-> "string", s |-> s, text |-> <<>>]
StructValue(parts) == [kind |-> "struct", s |-> <<>>, text |-> parts]

\* A queryParameters element: an object {id, key, name, value}, or a bare string.
QpObject(id, key, name, value) ==
    [kind |-> "object", str |-> <<>>, id |-> id, key |-> key, name |-> name, value |-> value]
QpString(s) ==
    [kind |-> "string", str |-> s, id |-> NoId, key |-> <<>>, name |-> <<>>,
     value |-> AbsentValue]

AbsentBody == [kind |-> "absent", content |-> <<>>]
ObjectBody(parts) == [kind |-> "object", content |-> parts]

EmptyCand ==
    [ id |-> NoId, name |-> Undefined, description |-> Undefined, url |-> AbsentUrl,
      httpMethod |-> Undefined, method |-> Undefined,
      queryParameters |-> <<>>, body |-> AbsentBody, headers |-> <<>> ]

\* String.prototype.toLowerCase on the method names a payload may carry.
ToLowerCase(m) ==
    CASE m = "GET" -> "get"
      [] m = "POST" -> "post"
      [] m = "PUT" -> "put"
      [] m = "PATCH" -> "patch"
      [] m = "DELETE" -> "delete"
      [] OTHER -> m

\* askAnthropic passes the parsed JSON through normalizeLLMApiToolJson unless it has
\* an apiTool or apiToolInputVariables key.
NeedsNormalize(extracted) ==
    extracted.shape # "apiTool" /\ extracted.varsKey # "apiToolInputVariables"

\* !aiJson || typeof aiJson !== 'object' is false: typeof gives 'object' for an object
\* and for an array, and null is falsy.
PassesObjectTest(aiJson) == aiJson.shape \notin {"null", "string", "number"}

\* normalizeLLMApiToolJson(raw): gives the wrapped payload and the ids consumed.
normalizeLLMApiToolJson(raw, idBase) ==
    LET t == IF raw.shape = "flat" THEN raw.tool ELSE EmptyCand
        url1 == IF t.url.kind = "string" THEN StructUrl(<<Lit(t.url.s)>>) ELSE t.url
        rename == t.method # Undefined /\ t.httpMethod = Undefined
        qps == t.queryParameters
        nq == IF Len(qps) > 0 /\ qps[1].kind = "string" THEN Len(qps) ELSE 0
        qps1 == IF nq > 0
                THEN [i \in 1..nq |->
                        QpObject(GenId(idBase + 2 * i - 1), qps[i].str, <<>>,
                                 StructValue(<<Lit(<<>>), Ref(GenId(idBase + 2 * i)), Lit(<<" ">>)>>))]
                ELSE qps
        vs == IF raw.varsKey = "variables" THEN raw.vars ELSE <<>>
        perVar == IF t.id = NoId THEN 2 ELSE 1
        vars1 == [i \in 1..Len(vs) |->
                    [ id |-> GenId(idBase + 2 * nq + perVar * (i - 1) + 1),
                      name |-> vs[i].name,
                      description |-> IF vs[i].description = Undefined THEN ""
                                      ELSE vs[i].description ]]
    IN  [ json |-> [ shape |-> "apiTool",
                     varsKey |-> "apiToolInputVariables",
                     tool |-> [t EXCEPT !.url = url1,
                                        !.httpMethod = IF rename THEN ToLowerCase(t.method) ELSE @,
                                        !.method = IF rename THEN Undefined ELSE @,
                                        !.queryParameters = qps1],
                     vars |-> vars1 ],
          used |-> 2 * nq + perVar * Len(vs) ]

----------------------------------------------------------------------------
(* Generator path: addApiToolFromJson *)

\* (aiJson.apiToolInputVariables || aiJson.variables || [])
DeclaredVars(aiJson) == IF aiJson.varsKey = "none" THEN <<>> ELSE aiJson.vars

\* The names of the matches ms.
MatchNames(ms) == { ms[i].name : i \in 1..Len(ms) }

\* The name of the first of vs whose id is variableID, when it has one.
FoundName(vs, variableID) ==
    LET hits == { i \in 1..Len(vs) : vs[i].id = variableID }
    IN  IF hits # {} /\ vs[Min(hits)].name # <<>> THEN {vs[Min(hits)].name} ELSE {}

\* The names a segment array adds to referencedVars: a {variableID} object is looked
\* up in aiJson.apiToolInputVariables (only when that key exists), a string is scanned.
ReferencedInParts(aiJson, parts) ==
    LET ofPart(p) ==
            IF IsRef(p) /\ p.variableID # NoId /\ aiJson.varsKey = "apiToolInputVariables"
            THEN FoundName(aiJson.vars, p.variableID)
            ELSE IF IsLit(p) THEN MatchNames(AllMatches(p.text))
            ELSE {}
    IN  UNION { ofPart(parts[i]) : i \in 1..Len(parts) }

\* urlStr: the strings of a structured url joined (objects give ''), or a string url.
UrlStr(url) ==
    IF url.kind = "struct"
    THEN Concat([i \in 1..Len(url.text) |->
                    IF IsLit(url.text[i]) THEN url.text[i].text ELSE <<>>])
    ELSE IF url.kind = "string" THEN url.s
    ELSE <<>>

\* queryString.split('&').map(trim).filter(Boolean), each then split on '=':
\* key is the first piece and value the second (anything after a second '=' is dropped).
QueryPairs(urlStr) ==
    LET queryIndex == IndexOf(urlStr, "?")
        queryString == SubSeq(urlStr, queryIndex + 1, Len(urlStr))
        pieces == SelectSeqNonEmpty(MapSeq(Split(queryString, "&"), Trim))
        pair(p) ==
            LET kv == Split(p, "=")
            IN  [key |-> kv[1], value |-> IF Len(kv) >= 2 THEN kv[2] ELSE <<>>]
    IN  IF queryIndex = 0 THEN <<>>
        ELSE SelectSeq(MapSeq(pieces, pair), LAMBDA kv : kv.key # <<>>)

\* The names of the pairs whose value is one placeholder.
PlaceholderNames(pairs) ==
    { FullMatch(pairs[i].value).name :
        i \in { j \in 1..Len(pairs) : FullMatch(pairs[j].value).ok } }

ReferencedInQuery(urlStr) == PlaceholderNames(QueryPairs(urlStr))

\* referencedVars
ReferencedVars(aiJson) ==
    LET toolObj == aiJson.tool
    IN  (IF toolObj.url.kind = "struct"
         THEN ReferencedInParts(aiJson, toolObj.url.text) ELSE {})
        \cup ReferencedInQuery(UrlStr(toolObj.url))
        \cup (IF toolObj.body.kind = "object"
              THEN ReferencedInParts(aiJson, toolObj.body.content) ELSE {})

\* variables.filter((v) => referencedVars.has(v.name))
SurvivingVars(aiJson) ==
    SelectSeq(DeclaredVars(aiJson), LAMBDA v : v.name \in ReferencedVars(aiJson))

\* varNameToId[name]: Object.fromEntries keeps the last entry of a repeated name.
NameToId(newVariables, name) ==
    LET hits == { i \in 1..Len(newVariables) : newVariables[i].name = name }
    IN  IF hits = {} THEN NoId
        ELSE newVariables[CHOOSE i \in hits : \A j \in hits : i >= j].id

\* Number n >= 0 written in decimal.
ToDecimal(n) ==
    LET digit == <<"0","1","2","3","4","5","6","7","8","9">>
        RECURSIVE go(_)
        go(k) == IF k < 10 THEN <<digit[k + 1]>> ELSE go(k \div 10) \o <<digit[(k % 10) + 1]>>
    IN  go(n)

\* The value of a query parameter that is one variable: ['', { variableID }, ' '].
PaddedRef(variableID) == <<Lit(<<>>), Ref(variableID), Lit(<<" ">>)>>

\* The value of the parameter parsed from a pair: the variable when the pair's value
\* is one placeholder with an id in varNameToId, the literal value otherwise.
PairValue(value, varMatch, newVariables) ==
    IF varMatch.ok /\ NameToId(newVariables, varMatch.name) # NoId
    THEN PaddedRef(NameToId(newVariables, varMatch.name))
    ELSE <<Lit(value)>>

\* The pairs that have a key and a value.
ValuedPairs(pairs) == SelectSeq(pairs, LAMBDA kv : kv.value # <<>>)

\* One query parameter per pair (ids follow idBase); the first form takes every
\* value as literal text.
ParamsOfPairsAllLiteral(pairs, newVariables, idBase) ==
    [i \in 1..Len(pairs) |->
        [ id |-> GenId(idBase + i),
          key |-> pairs[i].key,
          value |-> <<Lit(pairs[i].value)>> ]]
ParamsOfPairs(pairs, newVariables, idBase) ==
    [i \in 1..Len(pairs) |->
        [ id |-> GenId(idBase + i),
          key |-> pairs[i].key,
          value |-> PairValue(pairs[i].value, FullMatch(pairs[i].value), newVariables) ]]

\* The query parameters parsed from the url's query string.
QueryParamsFromUrl(urlStr, newVariables, idBase) ==
    ParamsOfPairs(ValuedPairs(QueryPairs(urlStr)), newVariables, idBase)

\* The fallback: the payload's own queryParameters, one output entry per element.
QueryParamsFromPayload(qps, newVariables, idBase) ==
    [idx \in 1..Len(qps) |->
        LET qp == qps[idx]
            key == IF qp.key # <<>> THEN qp.key
                   ELSE IF qp.name # <<>> THEN qp.name
                   ELSE <<"p","a","r","a","m">> \o ToDecimal(idx)
            variableName == IF qp.name # <<>> THEN qp.name
                            ELSE IF qp.key # <<>> THEN qp.key ELSE key
            variableID == NameToId(newVariables, variableName)
            v == qp.value
            hardcodedArray ==
                /\ v.kind = "struct"
                /\ Len(v.text) > 0
                /\ IsLit(v.text[1])
                /\ ~ \E i \in 1..Len(v.text) : IsRef(v.text[i]) /\ v.text[i].variableID # NoId
        IN  [ id |-> GenId(idBase + idx),
              key |-> key,
              value |-> IF v.kind = "string" /\ v.s # <<>> THEN <<Lit(v.s)>>
                        ELSE IF hardcodedArray THEN <<Lit(v.text[1].text)>>
                        ELSE IF variableID # NoId THEN PaddedRef(variableID)
                        ELSE <<Lit(<<>>)>> ]]

\* urlStr.replace(/\{\{(.*?)\}\}/g, '{$1}')
CollapseBraces(s) ==
    LET closes(i) ==
            { j \in (i + 2)..(Len(s) - 1) :
                /\ s[j] = "}" /\ s[j + 1] = "}"
                /\ \A k \in (i + 2)..(j - 1) : s[k] # "\n" }
        RECURSIVE go(_)
        go(i) ==
            IF i > Len(s) THEN <<>>
            ELSE IF i < Len(s) /\ s[i] = "{" /\ s[i + 1] = "{" /\ closes(i) # {}
            THEN LET j == CHOOSE c \in closes(i) : \A d \in closes(i) : c <= d
                 IN  <<"{">> \o SubSeq(s, i + 2, j - 1) \o <<"}">> \o go(j + 2)
            ELSE <<s[i]>> \o go(i + 1)
    IN  go(1)

\* urlStr.split('?')[0]
BeforeQuery(s) == Split(s, "?")[1]


AllowedFields ==
    { "id", "name", "description", "url", "httpMethod", "createdByID", "folderID",
      "createdAt", "updatedAt", "updatedByID", "body", "image", "headers",
      "queryParameters" }

\* A variant of NewVariables that keeps no tool id on the variables.
NewVariablesNoTool(variables, newToolId, idBase) ==
    [idx \in 1..Len(variables) |->
        [ id |-> GenId(idBase + idx),
          name |-> IF variables[idx].name # <<>> THEN variables[idx].name
                   ELSE <<"v","a","r">> \o ToDecimal(idx),
          apiToolID |-> NoId,
          description |-> IF variables[idx].description = Undefined THEN ""
                          ELSE variables[idx].description ]]

\* newVariables: the surviving variables with fresh ids (ids follow idBase).
NewVariables(variables, newToolId, idBase) ==
    [idx \in 1..Len(variables) |->
        [ id |-> GenId(idBase + idx),
          name |-> IF variables[idx].name # <<>> THEN variables[idx].name
                   ELSE <<"v","a","r">> \o ToDecimal(idx),
          apiToolID |-> newToolId,
          description |-> IF variables[idx].description = Undefined THEN ""
                          ELSE variables[idx].description ]]

\* The structured url with text[0] replaced by the part of urlStr before the '?'.
CutAt(url, urlStr, queryIndex) ==
    IF queryIndex # 0 /\ url.kind = "struct"
    THEN StructUrl(<<Lit(SubSeq(urlStr, 1, queryIndex - 1))>>
                   \o SubSeq(url.text, 2, Len(url.text)))
    ELSE url

\* toolObj.url[0].text[0] = urlStr.slice(0, queryIndex), for a structured url whose
\* strings hold a '?'.
StripQuery(url) == CutAt(url, UrlStr(url), IndexOf(UrlStr(url), "?"))

\* The text array of the tool's url after the string url is wrapped.
UrlText(url) ==
    IF url.kind = "struct" THEN url.text
    ELSE IF url.kind = "string" /\ url.s # <<>> THEN <<Lit(url.s)>>
    ELSE <<Lit(<<>>)>>

\* The parsed query string when it gives a parameter, else the payload's array.
ParsedOrSupplied(fromUrl, toolObj, newVariables, idBase) ==
    IF Len(fromUrl) > 0 THEN fromUrl
    ELSE QueryParamsFromPayload(toolObj.queryParameters, newVariables, idBase)

QueryParametersOf(toolObj, newVariables, idBase) ==
    ParsedOrSupplied(QueryParamsFromUrl(UrlStr(toolObj.url), newVariables, idBase),
                     toolObj, newVariables, idBase)

\* httpMethod after the projection onto allowedFields and the defaults.
HttpMethodOf(toolObj) ==
    LET projectedMethod == IF "method" \in AllowedFields THEN toolObj.method ELSE Undefined
    IN  IF toolObj.httpMethod # Undefined THEN toolObj.httpMethod
        ELSE IF projectedMethod # Undefined THEN projectedMethod
        ELSE "get"

\* The projected tool with its defaults, new id and query parameters.
ProjectTool(toolObj, newToolId, queryParameters) ==
    [ id |-> newToolId,
      name |-> toolObj.name,
      description |-> IF toolObj.description = Undefined THEN "" ELSE toolObj.description,
      url |-> UrlText(StripQuery(toolObj.url)),
      httpMethod |-> HttpMethodOf(toolObj),
      queryParameters |-> queryParameters,
      body |-> IF toolObj.body.kind = "absent" THEN NoBody
               ELSE [present |-> TRUE, content |-> toolObj.body.content],
      headers |-> toolObj.headers ]

\* The pushes, then the clean-up of the url array the pushed tool shares: text[0]
\* loses its query string and its double braces; an object there is a TypeError.
PushAndClean(data, newVariables, tool, linkId) ==
    LET hasAgent == Len(data.agents) > 0
        nq == Len(tool.queryParameters)
        pushed(urlText) ==
            [data EXCEPT
                !.keys = @ \cup {"agentAPITools"},
                !.apiToolInputVariables = @ \o newVariables,
                !.apiTools = Append(@, [tool EXCEPT !.url = urlText]),
                !.agentAPITools =
                    IF hasAgent
                    THEN Append(@, [id |-> linkId, agentID |-> data.agents[1],
                                    apiToolID |-> tool.id])
                    ELSE @]
        used == 1 + Len(newVariables) + nq + (IF hasAgent THEN 1 ELSE 0)
        first == tool.url[1]
    IN  IF Len(tool.url) > 0 /\ IsRef(first)
        THEN [outcome |-> "throw", data |-> pushed(tool.url), used |-> used]
        ELSE IF Len(tool.url) > 0
        THEN [outcome |-> "ok",
              data |-> pushed(<<Lit(CollapseBraces(IF nq > 0 THEN BeforeQuery(first.text)
                                                   ELSE first.text))>>
                              \o SubSeq(tool.url, 2, Len(tool.url))),
              used |-> used]
        ELSE [outcome |-> "ok", data |-> pushed(tool.url), used |-> used]

\* The query parameters, once the variables have their ids.
AddWithQueryParameters(toolObj, data, idBase, newVariables, queryParameters) ==
    PushAndClean(data, newVariables,
                 ProjectTool(toolObj, GenId(idBase + 1), queryParameters),
                 GenId(idBase + 2 + Len(newVariables) + Len(queryParameters)))

AddWithVariables(toolObj, data, idBase, newVariables) ==
    AddWithQueryParameters(toolObj, data, idBase, newVariables,
        QueryParametersOf(toolObj, newVariables, idBase + 1 + Len(newVariables)))

\* addApiToolFromJson(aiJson, vfData) for an object aiJson: the outcome, the document
\* in memory when the function ends (or throws) and the ids consumed.  Ids are
\* generated in the order tool, variables, query parameters, link.
addApiToolFromJson(aiJson, vfData, idBase) ==
    IF ~PassesObjectTest(aiJson)
    THEN \* throw new Error('Invalid AI tool JSON')
         [outcome |-> "invalid", data |-> vfData, used |-> 0]
    ELSE AddWithVariables(aiJson.tool, EnsureToolArrays(vfData), idBase,
                          NewVariables(SurvivingVars(aiJson), GenId(idBase + 1), idBase + 1))

----------------------------------------------------------------------------
(* vf-parser: updateAgentInstructions *)

\* The agentId argument is given (a falsy agentId updates every agent).
Given(agentId) == agentId # Undefined /\ agentId # ""

\* The instructions array of a root agent after the update: the text of the first
\* element is replaced when there is one with a text, else the array is set anew.
NewRootInstructions(instructions, newInstructions) ==
    IF Len(instructions) > 0 /\ instructions[1] # Undefined
    THEN [instructions EXCEPT ![1] = <<newInstructions>>]
    ELSE << <<newInstructions>> >>

\* updateAgentInstructions(data, newInstructions, agentId)
updateAgentInstructions(data, newInstructions, agentId) ==
    [data EXCEPT
        !.progInstructions =
            [i \in 1..Len(data.progAgents) |->
                IF /\ data.progInstructions[i] # Undefined
                   /\ (~Given(agentId) \/ data.progAgents[i] = agentId)
                THEN newInstructions
                ELSE data.progInstructions[i]],
        !.rootInstructions =
            [i \in 1..Len(data.agents) |->
                IF /\ Has(data.progAgents, data.agents[i])
                   /\ (~Given(agentId) \/ data.agents[i] = agentId)
                THEN NewRootInstructions(data.rootInstructions[i], newInstructions)
                ELSE data.rootInstructions[i]]]

----------------------------------------------------------------------------
(* Inputs.  One letter stands for a run of ordinary text: "h" is a host    *)
(* such as https://api.example.com/search.                                 *)

AgentIds == <<"A1", "A2">>

ToolNames == {"n1", "n2"}

\* Operator templates
UrlX == <<"h","/","{","x","}">>
UrlY == <<"h","/","{","y","}">>
UrlPlain == <<"h">>
UrlXX == <<"{","{","x","}","}","/","{","x","}">>
OperatorUrls == {UrlX, UrlY, UrlPlain, UrlXX}

QpNone == <<>>
QpOneVar == <<"k","=","{","x","}">>
QpMixed == <<"k","=","v",","," ","j","=","a","{","z","}","b">>
OperatorQueryInputs == {QpNone, QpOneVar, QpMixed}

BodyXW == <<"{","'","q","'",":","{","x","}",",","'","w","'",":","{","{","w","}","}","}">>
HeadersOne == <<"A",":","b">>

OpIn(name, url, qp, method, headers, wantsBody, bodyInput) ==
    [ name |-> name, description |-> "", url |-> url, queryParamsInput |-> qp,
      httpMethod |-> method, headersInput |-> headers,
      wantsBody |-> wantsBody, bodyInput |-> bodyInput, varDesc |-> "" ]

NoOpIn == OpIn(Undefined, <<>>, <<>>, Undefined, <<>>, FALSE, <<>>)

\* What the operator may type at the prompts.
OperatorInputs ==
    { OpIn(n, u, QpNone, "get", <<>>, FALSE, <<>>) : n \in ToolNames, u \in OperatorUrls }
    \cup
    { OpIn(n, UrlX, q, mb[1], <<>>, mb[2], BodyXW) :
        n \in ToolNames, q \in OperatorQueryInputs,
        mb \in { <<"get", FALSE>>, <<"post", FALSE>>, <<"post", TRUE>> } }
    \cup
    { OpIn("n1", UrlPlain, QpOneVar, "put", HeadersOne, TRUE, BodyXW) }


\* Generator payloads
VarA == [id |-> LlmId(1), name |-> <<"a">>, description |-> "the a"]
VarB == [id |-> LlmId(2), name |-> <<"b">>, description |-> Undefined]
VarA2 == [id |-> LlmId(3), name |-> <<"a">>, description |-> Undefined]

GenUrlRef == StructUrl(<<Lit(<<"h","/">>), Ref(LlmId(1))>>)
GenUrlBrace == StructUrl(<<Lit(<<"h","/","{","a","}">>)>>)
GenUrlPlain == StructUrl(<<Lit(<<"h">>)>>)
GenUrlQueryString == StringUrl(<<"h","?","s","=","c","&","u","=","{","a","}">>)
GenUrlQueryStruct == StructUrl(<<Lit(<<"h","?","s","=","c","&","u","=","{","{","a","}","}","&","e","=","&","f">>)>>)
GenUrlQueryLate == StructUrl(<<Lit(<<"h","/">>), Ref(LlmId(1)), Lit(<<"?","k","=","v">>)>>)
GenUrlRefFirst == StructUrl(<<Ref(LlmId(1)), Lit(<<"/","p">>)>>)
GenUrlDoubleBrace == StructUrl(<<Lit(<<"h","/","{","{","a","}","}","/">>), Lit(<<"{","{","b","}","}">>)>>)
GenUrlPathString == StringUrl(<<"h","/","{","a","}">>)
GenUrlUnresolved == StructUrl(<<Lit(<<"h","/">>), Ref(LlmId(9))>>)
GenUrlEmptyQuery == StringUrl(<<"h","?","k","=">>)

GenUrls ==
    { GenUrlQueryString, GenUrlQueryStruct, GenUrlQueryLate, GenUrlRefFirst,
      GenUrlDoubleBrace, GenUrlPathString, GenUrlUnresolved, GenUrlEmptyQuery, AbsentUrl }

GenQpVarOnly == <<QpObject(LlmId(5), <<"a">>, <<>>, StructValue(PaddedRef(LlmId(1))))>>
GenQpHardcoded ==
    << QpObject(LlmId(5), <<"k">>, <<>>, StringValue(<<"v">>)),
       QpObject(LlmId(6), <<>>, <<"b">>, StructValue(<<Lit(<<"w">>)>>)),
       QpObject(NoId, <<>>, <<>>, AbsentValue) >>
GenQpStrings == <<QpString(<<"a">>), QpString(<<"q">>)>>

GenBodyRef == ObjectBody(<<Lit(<<"{","'","q","'",":">>), Ref(LlmId(1)), Lit(<<"}">>)>>)
GenBodyBrace == ObjectBody(<<Lit(<<"{","'","q","'",":","{","b","}","}">>)>>)

GenHeaders == <<[id |-> LlmId(7), key |-> <<"A">>, value |-> <<Lit(<<"b">>)>>]>>

Cand(name, url, httpMethod, method, qps, body, headers) ==
    [ id |-> LlmId(8), name |-> name, description |-> Undefined, url |-> url,
      httpMethod |-> httpMethod, method |-> method,
      queryParameters |-> qps, body |-> body, headers |-> headers ]

Payload(shape, varsKey, tool, vs) ==
    [shape |-> shape, varsKey |-> varsKey, tool |-> tool, vars |-> vs]

NoPayload == Payload("none", "none", EmptyCand, <<>>)

Shapes == {"apiTool", "tool", "flat"}
VarsKeys == {"apiToolInputVariables", "variables", "none"}

\* What the external generator may answer.
Payloads ==
    \* every envelope, with a structured reference or a placeholder in the url
    { Payload(sh, vk, Cand("n1", u, "get", Undefined, <<>>, AbsentBody, <<>>), <<VarA, VarB>>) :
        sh \in Shapes, vk \in VarsKeys, u \in {GenUrlRef, GenUrlBrace} }
    \cup
    \* the documented envelope, every url form, with and without declared variables
    { Payload("apiTool", "apiToolInputVariables",
              Cand("n2", u, "get", Undefined, <<>>, AbsentBody, <<>>), vs) :
        u \in GenUrls, vs \in { <<>>, <<VarA, VarB>>, <<VarA, VarA2>> } }
    \cup
    \* query parameters given by the payload
    { Payload(sv[1], sv[2], Cand("n1", GenUrlPlain, Undefined, Undefined, q, AbsentBody, GenHeaders),
              <<VarA, VarB>>) :
        sv \in { <<"apiTool", "apiToolInputVariables">>, <<"flat", "variables">> },
        q \in {GenQpVarOnly, GenQpHardcoded, GenQpStrings} }
    \cup
    \* methods and bodies
    { Payload(sh, "apiToolInputVariables", Cand("n2", GenUrlRef, mm[1], mm[2], <<>>, b, <<>>),
              <<VarA, VarB>>) :
        sh \in {"apiTool", "flat"},
        mm \in { <<Undefined, Undefined>>, <<"post", Undefined>>, <<"POST", Undefined>>,
                 <<Undefined, "POST">>, <<"trace", Undefined>> },
        b \in {AbsentBody, GenBodyRef, GenBodyBrace} }
    \cup
    { Payload("flat", "variables", Cand("n1", GenUrlPathString, Undefined, "POST", <<>>,
                                         GenBodyBrace, <<>>), <<VarA, VarB>>) }

\* Top-level values a caller of addApiToolFromJson may pass that are not plain
\* objects: null, a string, a number, and an array (no apiTool, tool or variables
\* property, so the array itself is taken as the tool and every field is undefined).
NullPayload == Payload("null", "none", EmptyCand, <<>>)
StringPayload == Payload("string", "none", EmptyCand, <<>>)
NumberPayload == Payload("number", "none", EmptyCand, <<>>)
ArrayPayload == Payload("array", "none", EmptyCand, <<>>)
DirectPayloads == {NullPayload, StringPayload, NumberPayload, ArrayPayload}

\* The instructions text given to updateAgentInstructions.
InstructionTexts == {"s1"}

----------------------------------------------------------------------------
(* State machine *)

InitDocs ==
    { Doc({"apiTools", "apiToolInputVariables", "agentAPITools"}, <<>>, <<>>, <<>>,
          AgentIds, <<>>),
      Doc({}, <<>>, <<>>, <<>>, <<>>, <<AgentIds[1]>>),
      Doc({}, <<>>, <<>>, <<>>, <<>>, <<>>),
      \* both agents in the root array, the second with an empty instructions array;
      \* the first also under programResources
      [Doc({}, <<>>, <<>>, <<>>, AgentIds, <<AgentIds[1]>>)
          EXCEPT !.rootInstructions = << << <<"i0">> >>, <<>> >>] }

WorkingFile == versions[Len(versions)]

NoLast(doc) ==
    [ op |-> "none", outcome |-> "none", before |-> doc, data |-> doc,
      opIn |-> NoOpIn, extracted |-> NoPayload, aiJson |-> NoPayload,
      agentId |-> Undefined, saved |-> FALSE,
      newInstructions |-> Undefined, version |-> 0 ]

Init ==
    /\ \E d \in InitDocs : versions = <<d>> /\ last = NoLast(d)
    /\ nextId = 0
    /\ ops = 0

\* What add-api-tool leaves behind when the callback returned r on the document data:
\* the working file as the callback saved it, and the snapshot saveNewVersion takes.
AddApiToolDone(data, in, agentId, r) ==
    /\ versions' = Append([versions EXCEPT ![Len(versions)] = IF r.saved THEN r.data ELSE data],
                          IF r.saved THEN r.data ELSE data)
    /\ nextId' = nextId + r.used
    /\ last' = [NoLast(data) EXCEPT !.op = "addApiTool",
                                    !.outcome = r.outcome,
                                    !.data = r.data,
                                    !.opIn = in,
                                    !.agentId = agentId,
                                    !.saved = r.saved]

\* The add-api-tool command: the prompts, then the mutation under withAutoVersioning
\* (load, mutate, save), then saveNewVersion of the working file.
AddApiTool(in, agentId) ==
    /\ ops < MaxOps
    /\ IF Len(listAllAgents(WorkingFile)) = 0
       THEN \* 'No agents found in the project.': nothing was asked, nothing is written
            /\ agentId = Undefined
            /\ last' = [NoLast(WorkingFile) EXCEPT !.op = "addApiTool", !.outcome = "noAgents"]
            /\ UNCHANGED <<versions, nextId>>
       ELSE /\ Has(listAllAgents(WorkingFile), agentId)
            /\ AddApiToolDone(WorkingFile, in, agentId,
                              AddApiToolMutation(WorkingFile, in, agentId, nextId))
    /\ ops' = ops + 1

\* askAnthropic: the parsed answer, normalized when it is not wrapped.
AskAnthropic(extracted, idBase) ==
    IF NeedsNormalize(extracted)
    THEN normalizeLLMApiToolJson(extracted, idBase)
    ELSE [json |-> extracted, used |-> 0]

\* What ai-add-api-tool leaves behind when askAnthropic gave n and addApiToolFromJson
\* gave r: the working file is written only when addApiToolFromJson returned.
AiAddApiToolDone(vfData, extracted, n, r) ==
    /\ versions' = IF r.outcome = "ok"
                   THEN [versions EXCEPT ![Len(versions)] = r.data]
                   ELSE versions
    /\ nextId' = nextId + n.used + r.used
    /\ last' = [NoLast(vfData) EXCEPT !.op = "aiAddApiTool",
                                      !.outcome = r.outcome,
                                      !.data = r.data,
                                      !.extracted = extracted,
                                      !.aiJson = n.json,
                                      !.saved = (r.outcome = "ok")]

AiAddApiToolWith(extracted, n) ==
    AiAddApiToolDone(WorkingFile, extracted, n,
                     addApiToolFromJson(n.json, WorkingFile, nextId + n.used))

\* The ai-add-api-tool command: load, ask the generator (askAnthropic normalizes its
\* answer), addApiToolFromJson, write the working file.
AiAddApiTool(extracted) ==
    /\ ops < MaxOps
    /\ AiAddApiToolWith(extracted, AskAnthropic(extracted, nextId))
    /\ ops' = ops + 1

\* What a call of addApiToolFromJson(aiJson, vfData) leaves in memory when it gave r.
CallAddApiToolFromJsonDone(vfData, aiJson, r) ==
    /\ nextId' = nextId + r.used
    /\ last' = [NoLast(vfData) EXCEPT !.op = "addApiToolFromJson",
                                      !.outcome = r.outcome,
                                      !.data = r.data,
                                      !.aiJson = aiJson]

\* addApiToolFromJson called by a user of the module on the loaded document with a
\* value that did not pass through askAnthropic.  Nothing is written to disk.
CallAddApiToolFromJson(aiJson) ==
    /\ ops < MaxOps
    /\ CallAddApiToolFromJsonDone(WorkingFile, aiJson,
                                  addApiToolFromJson(aiJson, WorkingFile, nextId))
    /\ ops' = ops + 1
    /\ UNCHANGED versions

\* updateAgentInstructions called on the loaded document.  The function writes no
\* file and consumes no id.
UpdateAgentInstructions(newInstructions, agentId) ==
    /\ ops < MaxOps
    /\ last' = [NoLast(WorkingFile) EXCEPT
                    !.op = "updateAgentInstructions",
                    !.outcome = "ok",
                    !.data = updateAgentInstructions(WorkingFile, newInstructions, agentId),
                    !.newInstructions = newInstructions,
                    !.agentId = agentId]
    /\ ops' = ops + 1
    /\ UNCHANGED <<versions, nextId>>

\* The revert-version command.  version = i names the i-th file of the versions
\* directory, version = 0 a name with no file.  The second argument of
\* versioning.revertToVersion is the identifier WORKING_VF_FILE, which no scope
\* enclosing the command declares: evaluating the arguments throws a ReferenceError
\* before revertToVersion is entered, the catch clause reports it, and no file is
\* touched, whatever the version named.  The command may follow MaxOps others.
RevertVersion(version) ==
    /\ ops < MaxOps + 1
    /\ version \in 0..Len(versions)
    /\ last' = [NoLast(WorkingFile) EXCEPT !.op = "revertVersion",
                                           !.outcome = "error",
                                           !.version = version]
    /\ ops' = ops + 1
    /\ UNCHANGED <<versions, nextId>>

Next ==
    \/ \E in \in OperatorInputs, a \in {AgentIds[i] : i \in 1..Len(AgentIds)} \cup {Undefined} :
            AddApiTool(in, a)
    \/ \E p \in Payloads : AiAddApiTool(p)
    \/ \E p \in DirectPayloads : CallAddApiToolFromJson(p)
    \/ \E s \in InstructionTexts, a \in {AgentIds[i] : i \in 1..Len(AgentIds)} \cup {Undefined} :
            UpdateAgentInstructions(s, a)
    \/ \E v \in 0..(MaxOps + 1) : RevertVersion(v)

Spec == Init /\ [][Next]_vars

----------------------------------------------------------------------------
(* Properties *)

\* The tools, variables and link the last command appended to the document in memory.
AddedTools == SubSeq(last.data.apiTools, Len(last.before.apiTools) + 1, Len(last.data.apiTools))
AddedVars ==
    SubSeq(last.data.apiToolInputVariables, Len(last.before.apiToolInputVariables) + 1,
           Len(last.data.apiToolInputVariables))
AddedLinks ==
    SubSeq(last.data.agentAPITools, Len(last.before.agentAPITools) + 1,
           Len(last.data.agentAPITools))

SameCollections(d, e) ==
    /\ d.apiTools = e.apiTools
    /\ d.apiToolInputVariables = e.apiToolInputVariables
    /\ d.agentAPITools = e.agentAPITools

\* The operator was asked for a tool name that a tool of the loaded document has.
OperatorNameTaken ==
    /\ last.op = "addApiTool"
    /\ last.outcome # "noAgents"
    /\ \E i \in 1..Len(last.before.apiTools) : last.before.apiTools[i].name = last.opIn.name

\* C1: when addApiTool is given the name of a tool the loaded document already holds,
\* it reports a duplicate, the three collections of the document in memory are the
\* ones it loaded, and the working file is not written.
C1_DuplicateNameAborts ==
    OperatorNameTaken =>
        /\ last.outcome = "duplicate"
        /\ SameCollections(last.data, last.before)
        /\ ~last.saved
        /\ WorkingFile = last.before

\* A duplicate by name alone: no tool of the loaded document has the new url.
C1_Witness ==
    /\ OperatorNameTaken
    /\ last.outcome = "duplicate"
    /\ \A i \in 1..Len(last.before.apiTools) :
          JoinParts(last.before.apiTools[i].url) # StripVars(last.opIn.url)

\* The url of a stored tool with every placeholder (a {variableID} element, or a
\* placeholder left in literal text) replaced by the one wildcard {var}.
WildcardUrl(parts) ==
    Concat([i \in 1..Len(parts) |->
        IF IsLit(parts[i]) THEN StripVars(parts[i].text) ELSE <<"{","v","a","r","}">>])

\* The operator gave a url template that, wildcard-normalized, is the url of a tool
\* of the loaded document.
OperatorUrlTaken ==
    /\ last.op = "addApiTool"
    /\ last.outcome # "noAgents"
    /\ \E i \in 1..Len(last.before.apiTools) :
          WildcardUrl(last.before.apiTools[i].url) = StripVars(last.opIn.url)

\* C2: addApiTool rejects as a duplicate a tool whose wildcard-normalized url is the
\* wildcard-normalized url of a tool already in the document, and appends nothing.
C2_DuplicateUrlRejected ==
    OperatorUrlTaken =>
        /\ last.outcome = "duplicate"
        /\ SameCollections(last.data, last.before)

\* C3: no two tools of the document have the same name.
C3_ToolNamesUnique ==
    \A i, j \in 1..Len(WorkingFile.apiTools) :
        i # j => WorkingFile.apiTools[i].name # WorkingFile.apiTools[j].name

\* The variableIDs that occur in a segment sequence, and in all sequences of a tool.
RefsOf(parts) == { parts[i].variableID : i \in { j \in 1..Len(parts) : IsRef(parts[j]) } }
ToolRefs(t) ==
    RefsOf(t.url)
    \cup UNION { RefsOf(t.queryParameters[i].value) : i \in 1..Len(t.queryParameters) }
    \cup (IF t.body.present THEN RefsOf(t.body.content) ELSE {})

\* The variables of the document d that belong to the tool t.
VarsOfTool(d, t) ==
    SelectSeq(d.apiToolInputVariables, LAMBDA v : v.apiToolID = t.id)

\* C4: every variableID in the url, the query values or the body of a tool of the
\* document is the id of a variable of the document that belongs to that tool.
C4_ReferencesResolve ==
    \A i \in 1..Len(WorkingFile.apiTools) :
        LET t == WorkingFile.apiTools[i]
            own == VarsOfTool(WorkingFile, t)
        IN  ToolRefs(t) \subseteq { own[k].id : k \in 1..Len(own) }

\* Every id a generator payload carries.
PayloadIds(p) ==
    LET t == p.tool
        valueRefs(v) == IF v.kind = "struct" THEN RefsOf(v.text) ELSE {}
    IN  ( {t.id}
          \cup { p.vars[i].id : i \in 1..Len(p.vars) }
          \cup (IF t.url.kind = "struct" THEN RefsOf(t.url.text) ELSE {})
          \cup { t.queryParameters[i].id : i \in 1..Len(t.queryParameters) }
          \cup UNION { valueRefs(t.queryParameters[i].value) : i \in 1..Len(t.queryParameters) }
          \cup (IF t.body.kind = "object" THEN RefsOf(t.body.content) ELSE {})
          \cup { t.headers[i].id : i \in 1..Len(t.headers) } ) \ {NoId}

\* Every id in what the last command appended.
OutputIds ==
    UNION { {AddedTools[i].id} \cup ToolRefs(AddedTools[i])
            \cup { AddedTools[i].queryParameters[k].id :
                      k \in 1..Len(AddedTools[i].queryParameters) }
            \cup { AddedTools[i].headers[k].id : k \in 1..Len(AddedTools[i].headers) } :
            i \in 1..Len(AddedTools) }
    \cup { AddedVars[i].id : i \in 1..Len(AddedVars) }
    \cup { AddedVars[i].apiToolID : i \in 1..Len(AddedVars) }
    \cup { AddedLinks[i].id : i \in 1..Len(AddedLinks) }
    \cup { AddedLinks[i].apiToolID : i \in 1..Len(AddedLinks) }

GeneratorAdded == last.op = "aiAddApiTool" /\ last.outcome = "ok"

\* C5: no id of the generator payload occurs in the tool, variables or link that
\* addApiToolFromJson appends.
C5_NoPayloadIdInOutput ==
    GeneratorAdded => OutputIds \cap PayloadIds(last.aiJson) = {}

\* C6: the variables of one tool have pairwise distinct names.
C6_VariableNamesUniquePerTool ==
    \A i \in 1..Len(WorkingFile.apiTools) :
        LET own == VarsOfTool(WorkingFile, WorkingFile.apiTools[i])
        IN  \A k, l \in 1..Len(own) : k # l => own[k].name # own[l].name

\* C7: every variable of the document is referenced by its id in a segment sequence
\* of the tool it belongs to.
C7_VariablesReferenced ==
    \A k \in 1..Len(WorkingFile.apiToolInputVariables) :
        LET v == WorkingFile.apiToolInputVariables[k]
        IN  \E i \in 1..Len(WorkingFile.apiTools) :
                /\ WorkingFile.apiTools[i].id = v.apiToolID
                /\ v.id \in ToolRefs(WorkingFile.apiTools[i])

\* The names a payload references: a {variableID} element names the declared
\* variable with that id, whichever key holds the variable list; a string names its
\* placeholders.  The url, the query-parameter values and the body are scanned.
NamesInParts(p, parts) ==
    LET declared == DeclaredVars(p)
        ofPart(x) ==
            IF IsRef(x)
            THEN { declared[i].name : i \in { j \in 1..Len(declared) : declared[j].id = x.variableID } }
            ELSE { AllMatches(x.text)[i].name : i \in 1..Len(AllMatches(x.text)) }
    IN  UNION { ofPart(parts[i]) : i \in 1..Len(parts) }

NamesInValue(p, v) ==
    IF v.kind = "struct" THEN NamesInParts(p, v.text)
    ELSE IF v.kind = "string" THEN NamesInParts(p, <<Lit(v.s)>>)
    ELSE {}

ReferencedNames(p) ==
    LET t == p.tool
    IN  NamesInValue(p, t.url)
        \cup UNION { NamesInValue(p, t.queryParameters[i].value) : i \in 1..Len(t.queryParameters) }
        \cup (IF t.body.kind = "object" THEN NamesInParts(p, t.body.content) ELSE {})

NamesOf(vs) == [i \in 1..Len(vs) |-> vs[i].name]

\* C8: addApiToolFromJson appends exactly the declared variables whose name the url,
\* the query parameters or the body of the tool candidate reference: declaring a and
\* b and referencing only a appends the one variable a.
C8_OnlyReferencedVariablesAppended ==
    GeneratorAdded =>
        NamesOf(AddedVars) =
            NamesOf(SelectSeq(DeclaredVars(last.aiJson),
                              LAMBDA v : v.name \in ReferencedNames(last.aiJson)))

\* C9: a tool of the document has a body only if its method is post, put or patch.
C9_BodyOnlyForBodyMethods ==
    \A i \in 1..Len(WorkingFile.apiTools) :
        WorkingFile.apiTools[i].body.present =>
            WorkingFile.apiTools[i].httpMethod \in BodyMethods

\* The key=value pairs of the query string of the last payload's url.
LastQueryPairs == QueryPairs(UrlStr(last.aiJson.tool.url))
LastValuedPairs == ValuedPairs(LastQueryPairs)

GeneratorAddedWithQuery ==
    GeneratorAdded /\ IndexOf(UrlStr(last.aiJson.tool.url), "?") # 0

\* The segment sequence value holds one variable reference, to an appended variable
\* called name (literal padding around it is allowed).
IsReferenceTo(value, name) ==
    /\ Cardinality({ i \in 1..Len(value) : IsRef(value[i]) }) = 1
    /\ \E k \in 1..Len(AddedVars) :
          AddedVars[k].name = name /\ AddedVars[k].id \in RefsOf(value)

IsDeclared(p, name) == \E i \in 1..Len(DeclaredVars(p)) : DeclaredVars(p)[i].name = name

Shape(parts) ==
    [i \in 1..Len(parts) |-> IF IsLit(parts[i]) THEN <<"literal", parts[i].text>>
                             ELSE <<"reference">>]

\* The payload gives the url as one template: a string, or one literal segment.
UrlIsOneTemplate(url) ==
    \/ url.kind = "string" /\ url.s # <<>>
    \/ url.kind = "struct" /\ Len(url.text) = 1 /\ IsLit(url.text[1]) /\ url.text[1].text # <<>>

\* Every placeholder of the template s names a variable the payload declares.
PlaceholdersDeclared(p, s) ==
    \A k \in 1..Len(AllMatches(s)) : IsDeclared(p, AllMatches(s)[k].name)

\* C11: for the same url template and the same query-value template, the tool the
\* generator path stores has segment sequences of the structure the operator path's
\* tokenizer gives: the same literals and references in the same order.
C11_SameSegmentStructure ==
    (GeneratorAdded /\ PlaceholdersDeclared(last.aiJson, UrlStr(last.aiJson.tool.url))) =>
        /\ (UrlIsOneTemplate(last.aiJson.tool.url)
              /\ IndexOf(UrlStr(last.aiJson.tool.url), "?") = 0)
           => Shape(AddedTools[1].url) = Shape(Tokenize(UrlStr(last.aiJson.tool.url), <<>>))
        /\ (Len(LastValuedPairs) > 0
              /\ Len(AddedTools[1].queryParameters) = Len(LastValuedPairs))
           => \A i \in 1..Len(LastValuedPairs) :
                 Shape(AddedTools[1].queryParameters[i].value)
                    = Shape(Tokenize(LastValuedPairs[i].value, <<>>))

\* The last operation was an add, by the command of either path or by a call of
\* addApiToolFromJson, and it failed: an error was thrown or an abort was reported.
AddFailed ==
    /\ last.op \in {"addApiTool", "aiAddApiTool", "addApiToolFromJson"}
    /\ last.outcome \in {"throw", "invalid", "duplicate", "noAgents"}

\* C12: an add operation that fails leaves the in-memory document's apiTools,
\* apiToolInputVariables and agentAPITools as they were before it started.
C12_FailureLeavesDocumentUnchanged ==
    AddFailed => SameCollections(last.data, last.before)

\* The last operation was an add that succeeded, on a document that has an agent.
AddSucceeded ==
    /\ last.op \in {"addApiTool", "aiAddApiTool", "addApiToolFromJson"}
    /\ last.outcome = "ok"
    /\ Len(listAllAgents(last.before)) > 0

\* C13: an add that succeeds appends exactly one tool and exactly one agent-tool
\* link; the link's apiToolID is the new tool's id and its agentID is the id of the
\* agent the tool was added for (the one the operator selected, an agent of the
\* document on the generator path).
C13_OneToolOneLink ==
    AddSucceeded =>
        /\ Len(AddedTools) = 1
        /\ Len(AddedLinks) = 1
        /\ AddedLinks[1].apiToolID = AddedTools[1].id
        /\ IF last.op = "addApiTool"
           THEN AddedLinks[1].agentID = last.agentId
           ELSE Has(listAllAgents(last.before), AddedLinks[1].agentID)

\* The enumerated methods.
HttpMethods == {"get", "post", "put", "patch", "delete"}

\* C14: every tool either path appends has an httpMethod among the lower-case values
\* get, post, put, patch, delete; a method outside the set makes the add fail and
\* appends nothing.
C14_HttpMethodEnumerated ==
    \A i \in 1..Len(AddedTools) : AddedTools[i].httpMethod \in HttpMethods

\* The declared variable called name is referenced from a value of the payload's
\* queryParameters array, by its payload id or by a placeholder.
ReferencedFromQueryParameters(p, v) ==
    \E i \in 1..Len(p.tool.queryParameters) :
        /\ p.tool.queryParameters[i].kind = "object"
        /\ v.name \in NamesInValue(p, p.tool.queryParameters[i].value)

\* C20: on the generator path a declared variable that a value of the payload's
\* queryParameters array references is appended to the document.
C20_QueryParameterReferencesDiscovered ==
    GeneratorAdded =>
        \A k \in 1..Len(DeclaredVars(last.aiJson)) :
            ReferencedFromQueryParameters(last.aiJson, DeclaredVars(last.aiJson)[k])
                => \E j \in 1..Len(AddedVars) :
                      AddedVars[j].name = DeclaredVars(last.aiJson)[k].name

\* addApiToolFromJson was called with a top-level value that is not an object: null,
\* a string, a number or an array.
CalledWithNonObject ==
    /\ last.op = "addApiToolFromJson"
    /\ last.aiJson.shape \in {"null", "string", "number", "array"}

\* C15: addApiToolFromJson called with a top-level value that is not an object fails
\* with the invalid-output error and leaves the document as it was, no collection
\* created on it.
C15_NonObjectRejected ==
    CalledWithNonObject => (last.outcome = "invalid" /\ last.data = last.before)

\* revert-version was run with the name of a file of the versions directory.
RevertedToExisting ==
    last.op = "revertVersion" /\ last.version \in 1..Len(versions)

\* revert-version was run with a name no file of the versions directory has.
RevertedToMissing == last.op = "revertVersion" /\ last.version = 0

\* C18: revert-version with the name of an existing version overwrites the working
\* file with that version's contents; with a name that has no version it reports an
\* error and leaves the working file as it was.
C18_RevertOverwritesWorkingFile ==
    /\ RevertedToExisting => WorkingFile = versions[last.version]
    /\ RevertedToMissing => (last.outcome = "error" /\ WorkingFile = last.before)

\* updateAgentInstructions was called with the id of an agent of the document.
UpdatedPresentAgent ==
    /\ last.op = "updateAgentInstructions"
    /\ Given(last.agentId)
    /\ (Has(last.before.agents, last.agentId) \/ Has(last.before.progAgents, last.agentId))

\* The instructions array of a root agent carries the text s.
CarriesInstructions(instructions, s) ==
    Len(instructions) > 0 /\ instructions[1] = <<s>>

\* C19: after updateAgentInstructions(data, s, agentId) with agentId an agent of the
\* document, that agent carries s in its programResources entry and in its root
\* array entry, wherever it occurs, and every other agent's instructions are as
\* before in both places.
C19_InstructionsUpdatedEverywhere ==
    UpdatedPresentAgent =>
        /\ \A i \in 1..Len(last.before.progAgents) :
              IF last.before.progAgents[i] = last.agentId
              THEN last.data.progInstructions[i] = last.newInstructions
              ELSE last.data.progInstructions[i] = last.before.progInstructions[i]
        /\ \A i \in 1..Len(last.before.agents) :
              IF last.before.agents[i] = last.agentId
              THEN CarriesInstructions(last.data.rootInstructions[i], last.newInstructions)
              ELSE last.data.rootInstructions[i] = last.before.rootInstructions[i]

----------------------------------------------------------------------------
(* The tokenizer on its own: every template up to MaxTemplateLen characters *)
(* over TemplateChars, given to the url loop and to the body loop of the    *)
(* add-api-tool callback with the variable ids made from its own names.     *)

MaxTemplateLen == 6

TemplateChars == {"{", "}", "a", "b", "/"}

Templates == UNION { [1..n -> TemplateChars] : n \in 0..MaxTemplateLen }

Untokenized(template) ==
    [ op |-> "none", template |-> template, allVarNames |-> <<>>,
      variableIDs |-> <<>>, tokens |-> <<>> ]

TokenizerInit ==
    /\ \E template \in Templates : last = Untokenized(template)
    /\ versions = <<>>
    /\ nextId = 0
    /\ ops = 0

\* What a loop leaves when the names found were allVarNames and the parts tokens.
Tokenized(op, template, allVarNames, tokens) ==
    /\ last' = [ op |-> op, template |-> template, allVarNames |-> allVarNames,
                 variableIDs |-> VariableIDs(allVarNames, nextId), tokens |-> tokens ]
    /\ nextId' = nextId + Len(allVarNames)
    /\ ops' = ops + 1
    /\ UNCHANGED versions

\* The template entered as the url: foundVars, variableIDs, then urlParts.
TokenizeUrl ==
    /\ last.op = "none"
    /\ Tokenized("url", last.template, AddNames(<<>>, last.template),
                 Tokenize(last.template,
                          VariableIDs(AddNames(<<>>, last.template), nextId)))

\* The template entered as the body: foundVars, variableIDs, then body.content.
TokenizeBody ==
    /\ last.op = "none"
    /\ Tokenized("body", last.template, AddBodyNames(<<>>, last.template),
                 BodyOf(last.template,
                        VariableIDs(AddBodyNames(<<>>, last.template), nextId)).content)

TokenizerNext == TokenizeUrl \/ TokenizeBody

TokenizerSpec == TokenizerInit /\ [][TokenizerNext]_vars

\* The placeholder of the template grammar that starts at i: {name}, or {{name}}.
SinglePlaceholderAt(s, i) ==
    LET b == RunEnd(s, i + 1, NameChars)
    IN  IF i <= Len(s) /\ s[i] = "{" /\ b > i + 1 /\ b <= Len(s) /\ s[b] = "}"
        THEN [ok |-> TRUE, name |-> SubSeq(s, i + 1, b - 1), end |-> b + 1]
        ELSE [ok |-> FALSE, name |-> <<>>, end |-> i]

DoublePlaceholderAt(s, i) ==
    IF i < Len(s) /\ s[i] = "{" /\ s[i + 1] = "{"
    THEN LET b == RunEnd(s, i + 2, NameChars)
         IN  IF b > i + 2 /\ b < Len(s) /\ s[b] = "}" /\ s[b + 1] = "}"
             THEN [ok |-> TRUE, name |-> SubSeq(s, i + 2, b - 1), end |-> b + 2]
             ELSE [ok |-> FALSE, name |-> <<>>, end |-> i]
    ELSE [ok |-> FALSE, name |-> <<>>, end |-> i]

PlaceholderAt(s, i) ==
    IF SinglePlaceholderAt(s, i).ok THEN SinglePlaceholderAt(s, i) ELSE DoublePlaceholderAt(s, i)

\* A well-formed template: plain characters and placeholders, no other brace.
RECURSIVE WellFormedFrom(_, _)
WellFormedFrom(s, i) ==
    IF i > Len(s) THEN TRUE
    ELSE IF s[i] \notin {"{", "}"} THEN WellFormedFrom(s, i + 1)
    ELSE PlaceholderAt(s, i).ok /\ WellFormedFrom(s, PlaceholderAt(s, i).end)

WellFormed(s) == WellFormedFrom(s, 1)

\* A well-formed template with every placeholder replaced by its name's value.
RECURSIVE SubstitutedFrom(_, _, _)
SubstitutedFrom(s, i, value) ==
    IF i > Len(s) THEN <<>>
    ELSE IF s[i] \notin {"{", "}"} THEN <<s[i]>> \o SubstitutedFrom(s, i + 1, value)
    ELSE value[PlaceholderAt(s, i).name] \o SubstitutedFrom(s, PlaceholderAt(s, i).end, value)

\* The segment sequence with every reference replaced by its variable's value.
Rendered(tokens, variableIDs, value) ==
    Concat([i \in 1..Len(tokens) |->
               IF IsLit(tokens[i]) THEN tokens[i].text
               ELSE IF \E k \in 1..Len(variableIDs) : variableIDs[k].id = tokens[i].variableID
               THEN value[variableIDs[CHOOSE k \in 1..Len(variableIDs) :
                                         variableIDs[k].id = tokens[i].variableID].name]
               ELSE <<"?">>])

TestValues == { <<"x">>, <<"y", "z">> }

\* The assignments of test values to the names found in the template.
Assignments == [ { last.allVarNames[i] : i \in 1..Len(last.allVarNames) } -> TestValues ]

\* C16: for a well-formed template and every assignment of values to its names, the
\* tokenized sequence with each reference replaced by its variable's value is the
\* template with each placeholder replaced by that value, and no literal of the
\* sequence is empty.
C16_TokenizerRoundTrip ==
    (last.op # "none" /\ WellFormed(last.template)) =>
        /\ \A value \in Assignments :
              Rendered(last.tokens, last.variableIDs, value)
                 = SubstitutedFrom(last.template, 1, value)
        /\ \A i \in 1..Len(last.tokens) :
              IsLit(last.tokens[i]) => last.tokens[i].text # <<>>

\* A well-formed template with a double-brace placeholder was tokenized into a
\* literal and a reference.
C16_Witness ==
    /\ last.op = "url"
    /\ WellFormed(last.template)
    /\ \E i \in 1..Len(last.template) : DoublePlaceholderAt(last.template, i).ok
    /\ Len(last.tokens) = 2
    /\ IsLit(last.tokens[1]) /\ IsRef(last.tokens[2])

\* s with the single-brace placeholder that starts at i (and ends before e) written
\* with double braces.
Doubled(s, i, e) ==
    SubSeq(s, 1, i - 1) \o <<"{">> \o SubSeq(s, i, e - 1) \o <<"}">> \o SubSeq(s, e, Len(s))

\* s with the double-brace placeholder that starts at i (and ends before e) written
\* with single braces.
Singled(s, i, e) ==
    SubSeq(s, 1, i - 1) \o SubSeq(s, i + 1, e - 2) \o SubSeq(s, e, Len(s))

\* The names extracted from s, as a set.
NameSet(s) == { AddNames(<<>>, s)[k] : k \in 1..Len(AddNames(<<>>, s)) }

\* s tokenizes as the last template did, with the same names.
TokenizesAsLast(s) ==
    /\ Tokenize(s, VariableIDs(AddNames(<<>>, s), 0)) = last.tokens
    /\ NameSet(s) = { last.allVarNames[k] : k \in 1..Len(last.allVarNames) }

\* C17: writing an occurrence of {name} in a template as {{name}}, or an occurrence
\* of {{name}} as {name}, changes neither the tokenized segment sequence nor the set
\* of extracted variable names.
C17_BraceEquivalence ==
    last.op # "none" =>
        \A i \in 1..Len(last.template) :
            /\ SinglePlaceholderAt(last.template, i).ok
                  => TokenizesAsLast(Doubled(last.template, i,
                                             SinglePlaceholderAt(last.template, i).end))
            /\ DoublePlaceholderAt(last.template, i).ok
                  => TokenizesAsLast(Singled(last.template, i,
                                             DoublePlaceholderAt(last.template, i).end))

\* A template with literal text around a {{name}} occurrence was tokenized.
C17_Witness ==
    /\ last.op = "url"
    /\ \E i \in 2..Len(last.template) :
          /\ DoublePlaceholderAt(last.template, i).ok
          /\ last.template[i - 1] \notin {"{", "}"}
    /\ Len(last.tokens) = 2
    /\ IsRef(last.tokens[2])

----------------------------------------------------------------------------
(* Properties of the generator path's url, method and envelope handling *)

\* The characters of the literal segments of parts.
HasChar(parts, ch) ==
    \E i \in 1..Len(parts) : IsLit(parts[i]) /\ IndexOf(parts[i].text, ch) # 0

\* The index of the first literal segment of parts that holds a '?'.
QuerySegment(parts) ==
    Min({ i \in 1..Len(parts) : IsLit(parts[i]) /\ IndexOf(parts[i].text, "?") # 0 })

\* The generator added a tool whose payload url is structured and holds a '?'.
GeneratorAddedStructuredQuery ==
    /\ GeneratorAdded
    /\ last.aiJson.tool.url.kind = "struct"
    /\ HasChar(last.aiJson.tool.url.text, "?")

\* C21: when the literal text of a structured url holds a '?', the stored url holds
\* no '?' in any segment, and the segments that precede the one with the '?' are
\* kept as they were, in order, wherever in the sequence that segment is.
C21_QueryStrippedFromUrl ==
    GeneratorAddedStructuredQuery =>
        /\ ~HasChar(AddedTools[1].url, "?")
        /\ Len(AddedTools[1].url) >= QuerySegment(last.aiJson.tool.url.text) - 1
        /\ Shape(SubSeq(AddedTools[1].url, 1, QuerySegment(last.aiJson.tool.url.text) - 1))
             = Shape(SubSeq(last.aiJson.tool.url.text, 1,
                            QuerySegment(last.aiJson.tool.url.text) - 1))

\* addApiToolFromJson received a candidate with a method field and no httpMethod.
LegacyMethodOnly ==
    /\ last.aiJson.tool.method # Undefined
    /\ last.aiJson.tool.httpMethod = Undefined

\* C22: a candidate addApiToolFromJson receives with a legacy method field and no
\* httpMethod is added with httpMethod equal to that method value; httpMethod is
\* get by default only when the candidate has neither field.
C22_LegacyMethodRenamed ==
    GeneratorAdded =>
        /\ LegacyMethodOnly => AddedTools[1].httpMethod = last.aiJson.tool.method
        /\ AddedTools[1].httpMethod = "get"
              => (last.aiJson.tool.httpMethod \in {"get", Undefined}
                    /\ last.aiJson.tool.method \in {"get", Undefined})

\* The ids the references of the payload's url and body carry that match no declared
\* variable with a name.
UnresolvedRefs(p) ==
    { id \in RefsOf(IF p.tool.url.kind = "struct" THEN p.tool.url.text ELSE <<>>)
             \cup RefsOf(IF p.tool.body.kind = "object" THEN p.tool.body.content ELSE <<>>) :
        \A i \in 1..Len(DeclaredVars(p)) :
            DeclaredVars(p)[i].id # id \/ DeclaredVars(p)[i].name = <<>> }

\* The ids of the references of the stored tool's url and body.
StoredRefs(t) == RefsOf(t.url) \cup (IF t.body.present THEN RefsOf(t.body.content) ELSE {})

\* C23: a structured reference of the url or body whose variableID matches no declared
\* variable with a name does not fail the add; every reference of the stored tool is
\* backed by a variable appended with a fresh id.
C23_UnresolvedReferenceGetsFallback ==
    (last.op = "aiAddApiTool" /\ UnresolvedRefs(last.aiJson) # {}) =>
        /\ last.outcome = "ok"
        /\ Len(AddedTools) = 1
        /\ StoredRefs(AddedTools[1]) \subseteq { AddedVars[k].id : k \in 1..Len(AddedVars) }

\* The text holds a double-brace placeholder {{name}}.
HasDoubleBracePlaceholder(text) ==
    \E i \in 1..Len(text) : DoublePlaceholderAt(text, i).ok

\* C24: in the tool the generator path stored, no literal segment of the url, at any
\* position of the sequence, holds a double-brace placeholder {{name}}.
C24_NoDoubleBraceInUrl ==
    GeneratorAdded =>
        \A i \in 1..Len(AddedTools[1].url) :
            IsLit(AddedTools[1].url[i])
               => ~HasDoubleBracePlaceholder(AddedTools[1].url[i].text)

\* The payload p in the documented envelope {apiTool, apiToolInputVariables}.
Rewrapped(p) == Payload("apiTool", "apiToolInputVariables", p.tool, p.vars)

\* What the generator path makes of the answer p on the document vfData: askAnthropic,
\* then addApiToolFromJson.
GeneratorResult(p, vfData) ==
    addApiToolFromJson(AskAnthropic(p, 0).json, vfData, AskAnthropic(p, 0).used)

\* A tool without its fresh ids: name, method, and the structure of its sequences.
ToolUpToIds(t) ==
    [ name |-> t.name,
      httpMethod |-> t.httpMethod,
      url |-> Shape(t.url),
      queryParameters |-> [i \in 1..Len(t.queryParameters) |->
                              <<t.queryParameters[i].key, Shape(t.queryParameters[i].value)>>],
      body |-> IF t.body.present THEN Shape(t.body.content) ELSE <<>> ]

\* The tools and the variable names r.data has beyond those of vfData.
AppendedUpToIds(r, vfData) ==
    [ tools |-> [i \in 1..(Len(r.data.apiTools) - Len(vfData.apiTools)) |->
                    ToolUpToIds(r.data.apiTools[Len(vfData.apiTools) + i])],
      variables |-> { r.data.apiToolInputVariables[i].name :
                        i \in (Len(vfData.apiToolInputVariables) + 1)
                              ..Len(r.data.apiToolInputVariables) } ]

\* The generator answered with a tool and variable declarations in one of the
\* envelopes {apiTool, apiToolInputVariables}, {tool, variables}, flat with variables.
AnsweredInEnvelope ==
    /\ last.op = "aiAddApiTool"
    /\ <<last.extracted.shape, last.extracted.varsKey>>
          \in { <<"apiTool", "apiToolInputVariables">>, <<"tool", "variables">>,
                <<"flat", "variables">> }

\* C25: whatever envelope carries the tool and the variable declarations, the
\* appended tool and the set of appended variables are those the documented
\* envelope gives, up to the fresh ids.
C25_EnvelopeIndependent ==
    AnsweredInEnvelope =>
        /\ last.outcome = GeneratorResult(Rewrapped(last.extracted), last.before).outcome
        /\ [tools |-> [i \in 1..Len(AddedTools) |-> ToolUpToIds(AddedTools[i])],
            variables |-> { AddedVars[i].name : i \in 1..Len(AddedVars) }]
             = AppendedUpToIds(GeneratorResult(Rewrapped(last.extracted), last.before),
                               last.before)

----------------------------------------------------------------------------
(* Properties of the document as a whole *)

IsPrefix(q, r) == Len(q) <= Len(r) /\ SubSeq(r, 1, Len(q)) = q

\* Document e is document d with entries appended to the three collections and
\* nothing else changed.
GrownFrom(e, d) ==
    /\ IsPrefix(d.apiTools, e.apiTools)
    /\ IsPrefix(d.apiToolInputVariables, e.apiToolInputVariables)
    /\ IsPrefix(d.agentAPITools, e.agentAPITools)
    /\ e.agents = d.agents
    /\ e.progAgents = d.progAgents
    /\ e.rootInstructions = d.rootInstructions
    /\ e.progInstructions = d.progInstructions

AddOps == {"addApiTool", "aiAddApiTool", "addApiToolFromJson"}

\* C26: across add operations of either path the three collections only grow by
\* appending: the entries the document had before an operation are still there, at
\* the same index and unchanged, in memory and in the working file, and the agents
\* and their instructions are unchanged.
C26_AppendOnly ==
    [][last'.op \in AddOps =>
          /\ last'.before = WorkingFile
          /\ GrownFrom(last'.data, WorkingFile)
          /\ GrownFrom(WorkingFile', WorkingFile)]_vars

\* An add succeeded on a document that already had a tool, a variable and a link.
C26_Witness ==
    /\ last.op \in AddOps
    /\ last.outcome = "ok"
    /\ Len(last.before.apiTools) > 0
    /\ Len(last.before.apiToolInputVariables) > 0
    /\ Len(last.before.agentAPITools) > 0
    /\ Len(WorkingFile.apiTools) > Len(last.before.apiTools)

----------------------------------------------------------------------------
(* Two commands on one project file: an ai-add-api-tool command that is        *)
(* suspended at its prompt or at its request to the generator, and the         *)
(* commands that run to their end meanwhile.  Here last records the suspended  *)
(* command: loaded holds the document it read (at most one), workingFile the   *)
(* file it will write, added the ids of the tools reported as added so far.    *)

Idle ==
    [ op |-> "none", outcome |-> "none", loaded |-> <<>>, workingFile |-> 0, added |-> {} ]

ConcurrentInit ==
    /\ \E d \in InitDocs : versions = <<d>>
    /\ last = Idle
    /\ nextId = 0
    /\ ops = 0

\* The id of the tool a successful add appended to data.
NewToolId(data) == data.apiTools[Len(data.apiTools)].id

\* ai-add-api-tool up to its first await: the working file is chosen and read.
AiLoad ==
    /\ ops < MaxOps
    /\ last.loaded = <<>>
    /\ last' = [last EXCEPT !.op = "aiLoad", !.outcome = "none",
                            !.loaded = <<WorkingFile>>,
                            !.workingFile = Len(versions)]
    /\ UNCHANGED <<versions, nextId, ops>>

\* What the rest of ai-add-api-tool leaves when askAnthropic gave n and
\* addApiToolFromJson gave r on the document read before the awaits.
AiFinishDone(n, r) ==
    /\ versions' = IF r.outcome = "ok"
                   THEN [versions EXCEPT ![last.workingFile] = r.data]
                   ELSE versions
    /\ nextId' = nextId + n.used + r.used
    /\ last' = [last EXCEPT !.op = "aiFinish", !.outcome = r.outcome,
                            !.loaded = <<>>,
                            !.added = IF r.outcome = "ok" THEN @ \cup {NewToolId(r.data)}
                                      ELSE @]

AiFinishWith(n) ==
    AiFinishDone(n, addApiToolFromJson(n.json, last.loaded[1], nextId + n.used))

\* ai-add-api-tool after its awaits: the answer is parsed, the document read at the
\* start is mutated and written to the file chosen at the start.
AiFinish(extracted) ==
    /\ last.loaded # <<>>
    /\ AiFinishWith(AskAnthropic(extracted, nextId))
    /\ ops' = ops + 1

\* What add-api-tool leaves when its callback returned r.
OperatorAddDone(r) ==
    /\ versions' = Append([versions EXCEPT ![Len(versions)] =
                              IF r.saved THEN r.data ELSE WorkingFile],
                          IF r.saved THEN r.data ELSE WorkingFile)
    /\ nextId' = nextId + r.used
    /\ last' = [last EXCEPT !.op = "addApiTool", !.outcome = r.outcome,
                            !.added = IF r.outcome = "ok" THEN @ \cup {NewToolId(r.data)}
                                      ELSE @]

\* add-api-tool from the end of its prompts: load, mutate, save and snapshot happen
\* without an await between them.  (On a document without agents the command
\* returns before its prompts and leaves everything as it is.)
OperatorAdd(in, agentId) ==
    /\ ops < MaxOps
    /\ Has(listAllAgents(WorkingFile), agentId)
    /\ OperatorAddDone(AddApiToolMutation(WorkingFile, in, agentId, nextId))
    /\ ops' = ops + 1

\* What the operator enters and what the generator answers while two commands run:
\* tools without query parameters and bodies, and one answer that makes the add throw.
ConcurrentInputs ==
    { OpIn(n, u, QpNone, "get", <<>>, FALSE, <<>>) : n \in ToolNames, u \in {UrlX, UrlPlain} }

ConcurrentPayloads ==
    { Payload("apiTool", "apiToolInputVariables",
              Cand(n, u, "get", Undefined, <<>>, AbsentBody, <<>>), <<VarA, VarB>>) :
        n \in ToolNames, u \in {GenUrlRef, GenUrlPlain, GenUrlRefFirst} }

ConcurrentNext ==
    \/ AiLoad
    \/ \E p \in ConcurrentPayloads : AiFinish(p)
    \/ \E in \in ConcurrentInputs, a \in {AgentIds[i] : i \in 1..Len(AgentIds)} :
            OperatorAdd(in, a)

ConcurrentSpec == ConcurrentInit /\ [][ConcurrentNext]_vars

\* The ids of the tools of the file the suspended command chose.
IdsInChosenFile ==
    { versions[last.workingFile].apiTools[i].id :
        i \in 1..Len(versions[last.workingFile].apiTools) }

\* C27: an add loads, mutates and saves with no suspension point between the load
\* and the save, so that when a command ran between the start and the end of an
\* ai-add-api-tool command on the same file, the file holds the tools both added.
C27_InterleavedAddsKeepBothTools ==
    (last.op = "aiFinish" /\ last.outcome = "ok") => last.added \subseteq IdsInChosenFile

\* C28: after a successful add of either path, every variable and every agent-tool
\* link the operation appended has the apiToolID of the one tool it appended, so
\* none of them refers to a tool the document's apiTools lacks.
C28_AppendedEntriesNameNewTool ==
    (last.op \in AddOps /\ last.outcome = "ok") =>
        /\ Len(AddedTools) = 1
        /\ \A i \in 1..Len(AddedVars) : AddedVars[i].apiToolID = AddedTools[1].id
        /\ \A i \in 1..Len(AddedLinks) : AddedLinks[i].apiToolID = AddedTools[1].id
        /\ \A i \in 1..Len(last.before.apiTools) :
              last.before.apiTools[i].id # AddedTools[1].id

\* The generator path added a tool with a variable and a link to a document that
\* already had a tool.
C28_Witness ==
    /\ GeneratorAdded
    /\ Len(last.before.apiTools) > 0
    /\ Len(AddedVars) > 0
    /\ Len(AddedLinks) > 0

============================================================================
